---- MODULE Spec2Model ----
(***************************************************************************)
(* Model of hivemind/p2p/p2p_daemon_bindings/control.py: the ControlClient *)
(* that drives a libp2p daemon.  The state is the client's fields, the     *)
(* asyncio tasks it runs (the tasks that invoke its public methods, the    *)
(* read loop, the write loop, one task per inbound request) and the frames *)
(* on the persistent connection.  One step is what one task does between   *)
(* two suspension points of the asyncio event loop: an await that does not *)
(* suspend (a put on the unbounded queue, an await of a finished future)   *)
(* is part of the step around it.                                          *)
(*                                                                         *)
(* Line 160, `with self._ensure_conn_lock:`, uses an asyncio.Lock as a     *)
(* synchronous context manager.  CPython's asyncio.Lock raises there       *)
(* (RuntimeError up to 3.8, AttributeError/TypeError from 3.9), before the *)
(* body runs.  The model keeps that outcome (LockRaises) and, beside it,   *)
(* the entry the statement is written for: a free lock is taken at entry   *)
(* and released at exit, a held lock cannot be waited for synchronously    *)
(* and raises.  The second outcome is what makes the rest of the engine    *)
(* reachable; every invariant below therefore covers the behaviours of     *)
(* the code as it runs and those of the code with a lock that enters.      *)
(***************************************************************************)
EXTENDS Integers, Sequences, FiniteSets, TLC

\* ---- bounds -------------------------------------------------------------
NumTasks == 2        \* concurrent invocations of the client's public methods
NumPayloads == 2     \* distinct handler results / daemon error messages
MaxFrames == 2       \* frames the daemon delivers on the persistent connection
MaxStreams == 2      \* inbound connections the daemon opens to the listener

Tasks == 1 .. NumTasks
CallIDs == Tasks                    \* uuid4() of the invocation in task t (line 182)
UnknownId == NumTasks + 1           \* a CallID no invocation generated
Payloads == 1 .. NumPayloads
Protos == {"p", "q"}
None == "None"
NoVal == 0 - 1                      \* an unset field
NoHandler == NumTasks + 1           \* no handler, no callback
HandlerOf(t) == t                   \* the handler / callback object task t passes

VARIABLES
    pers_conn_open,     \* self._pers_conn_open
    ensure_conn_lock,   \* self._ensure_conn_lock: TRUE while held
    unary_handlers,     \* self.unary_handlers: a dict proto -> handler
    handlers,           \* self.handlers: a dict proto -> stream callback
    pending_messages,   \* self.pending_messages: the outbound queue
    pending_calls,      \* self.pending_calls: a dict CallID -> future
    reader,             \* the read-loop task: "none", "running", "dead"
    writer,             \* the write-loop task: "none", "running", "dead"
    wire,               \* frames written to the persistent connection
    task,               \* the invocations of the public methods
    htask,              \* _handle_persistent_request tasks, in creation order
    nOpen,              \* history: executions of open_persistent_connection
    enq,                \* history: every frame put on pending_messages
    received,           \* history: the frames the read loop has read, in order
    streams             \* inbound connections _handler has served, in order

vars == <<pers_conn_open, ensure_conn_lock, unary_handlers, handlers,
          pending_messages, pending_calls, reader, writer, wire, task, htask,
          nOpen, enq, received, streams>>

\* what _ensure_persistent_conn sets up
channel == <<pers_conn_open, ensure_conn_lock, reader, writer, wire, nOpen>>

\* ---- frames -------------------------------------------------------------
\* Requests (client -> daemon) and responses (daemon -> client) share a shape.
Frame(type, proto, callId, kind, val) ==
    [type |-> type, proto |-> proto, callId |-> callId, kind |-> kind, val |-> val]

UpgradeReq == Frame("PERSISTENT_CONN_UPGRADE", None, UnknownId, None, NoVal)
CallUnaryReq(id) == Frame("CALL_UNARY", None, id, None, NoVal)
AddUnaryHandlerReq(p) == Frame("ADD_UNARY_HANDLER", p, UnknownId, None, NoVal)
SendResponseReq(id, kind, val) == Frame("SEND_RESPONSE_TO_REMOTE", None, id, kind, val)

\* Frames the daemon may deliver on the persistent connection.  The content of
\* a callUnaryResponse names the CallID and the field it was sent with, so that
\* no two such frames carry the same content; they come in any order, more than
\* once, and for CallIDs nobody waits for.
ResultFor(id) == 2 * id
ErrorFor(id) == 2 * id + 1
CallUnaryResponses ==
    { Frame("callUnaryResponse", None, id, "result", ResultFor(id)) :
        id \in CallIDs \cup {UnknownId} }
    \cup { Frame("callUnaryResponse", None, id, "error", ErrorFor(id)) :
        id \in CallIDs \cup {UnknownId} }
\* the i-th request the daemon relays carries callId i (NewRequestTask)
RequestHandlings ==
    { Frame("requestHandling", p, UnknownId, None, NoVal) : p \in Protos }
OtherResponses == { Frame("other", None, UnknownId, None, NoVal) }

\* ---- futures, dicts, outcomes -------------------------------------------
Future(state, val) == [state |-> state, val |-> val]
NewFuture == Future("pending", NoVal)

\* d[k] = v, and d.pop(k)
Put(d, k, v) == [x \in DOMAIN d \cup {k} |-> IF x = k THEN v ELSE d[x]]
Pop(d, k) == [x \in DOMAIN d \ {k} |-> d[x]]
EmptyDict == [x \in {} |-> None]

\* how an invocation ended: what it returned or raised
Outcome(kind, val) == [kind |-> kind, val |-> val]
NoOutcome == Outcome("none", NoVal)

\* a response on an ephemeral connection: its status and, for ERROR, a message
Response(status, msg) == [status |-> status, msg |-> msg]
NoResponse == Response(None, NoVal)
Responses == {Response("OK", NoVal)} \cup {Response("ERROR", m) : m \in Payloads}

IdleTask == [pc |-> "idle", kind |-> None, proto |-> None, conn |-> "none",
             nwritten |-> 0, resp |-> NoResponse, nread |-> 0,
             outcome |-> NoOutcome]

Init ==
    /\ pers_conn_open = FALSE
    /\ ensure_conn_lock = FALSE
    /\ unary_handlers = EmptyDict
    /\ handlers = EmptyDict
    /\ pending_messages = <<>>
    /\ pending_calls = EmptyDict
    /\ reader = "none"
    /\ writer = "none"
    /\ wire = <<>>
    /\ task = [t \in Tasks |-> IdleTask]
    /\ htask = <<>>
    /\ nOpen = 0
    /\ enq = <<>>
    /\ received = <<>>
    /\ streams = <<>>

\* task t ends with this outcome
Ends(t, outcome) == [task EXCEPT ![t].pc = "done", ![t].outcome = outcome]

\* ---- _ensure_persistent_conn (lines 158-165) ----------------------------
\* line 159: the channel is open, nothing to do
EnsureOpen == pers_conn_open

\* line 160, as CPython runs it: entering the `with` raises
LockRaises == ~pers_conn_open

\* line 160, with a lock that enters: free, taken until the block is left
LockEnters == ~pers_conn_open /\ ~ensure_conn_lock

\* EstablishChannel over a connection opened with open_connection: no upgrade
\* frame is written
EstablishChannel_NoUpgrade ==
    /\ nOpen' = nOpen + 1
    /\ wire' = wire
    /\ reader' = "running"
    /\ writer' = "running"
    /\ pers_conn_open' = TRUE
    /\ ensure_conn_lock' = FALSE

\* lines 162-165, from the return of open_persistent_connection (which has
\* written the upgrade frame, line 64) to the end of the `with` block
EstablishChannel ==
    /\ nOpen' = nOpen + 1
    /\ wire' = Append(wire, UpgradeReq)
    /\ reader' = "running"
    /\ writer' = "running"
    /\ pers_conn_open' = TRUE
    /\ ensure_conn_lock' = FALSE

\* ---- call_unary_handler (lines 181-201) ---------------------------------
\* IssueCall with the put first and suspending: the request is on the queue
\* while the future is not yet in pending_calls
IssueCall_PutFirst(t) ==
    /\ pending_messages' = Append(pending_messages, CallUnaryReq(t))
    /\ enq' = Append(enq, CallUnaryReq(t))
    /\ task' = [task EXCEPT ![t].pc = "putting", ![t].kind = "call_unary_handler"]
    /\ UNCHANGED pending_calls

\* lines 197-199: register the future, put the request, suspend on the future
IssueCall(t) ==
    /\ pending_calls' = Put(pending_calls, t, NewFuture)
    /\ pending_messages' = Append(pending_messages, CallUnaryReq(t))
    /\ enq' = Append(enq, CallUnaryReq(t))
    /\ task' = [task EXCEPT ![t].pc = "awaiting", ![t].kind = "call_unary_handler"]

\* what `return await self.pending_calls[call_id]` yields for a done future
AwaitOutcome(fut) ==
    CASE fut.state = "result" -> Outcome("result", fut.val)
      [] fut.state = "error" -> Outcome("remote_error", fut.val)
      [] OTHER -> Outcome("cancelled", NoVal)

\* FinishCall with the pop after the await instead of in a finally block
FinishCall_PopOnSuccessOnly(t) ==
    /\ task' = Ends(t, AwaitOutcome(pending_calls[t]))
    /\ IF pending_calls[t].state = "result"
       THEN pending_calls' = Pop(pending_calls, t)
       ELSE UNCHANGED pending_calls

\* lines 199-201: the future is done; the finally block pops the entry
FinishCall(t) ==
    /\ task' = Ends(t, AwaitOutcome(pending_calls[t]))
    /\ pending_calls' = Pop(pending_calls, t)

CallStart(t) ==
    /\ task[t].pc = "idle"
    /\ \/ /\ EnsureOpen
          /\ IssueCall(t)
          /\ UNCHANGED channel
       \/ /\ LockRaises
          /\ task' = [Ends(t, Outcome("lock_error", NoVal))
                        EXCEPT ![t].kind = "call_unary_handler"]
          /\ UNCHANGED <<channel, pending_messages, pending_calls, enq>>
       \/ /\ LockEnters
          /\ ensure_conn_lock' = TRUE
          /\ task' = [task EXCEPT ![t].pc = "opening", ![t].kind = "call_unary_handler"]
          /\ UNCHANGED <<pers_conn_open, pending_messages, pending_calls, reader,
                         writer, wire, nOpen, enq>>
    /\ UNCHANGED <<unary_handlers, handlers, htask, received, streams>>

\* open_persistent_connection has returned to line 162
CallOpened(t) ==
    /\ task[t].pc = "opening"
    /\ task[t].kind = "call_unary_handler"
    /\ EstablishChannel
    /\ IssueCall(t)
    /\ UNCHANGED <<unary_handlers, handlers, htask, received, streams>>

\* the caller's task is cancelled while it waits at line 199: the future it
\* waits for is cancelled with it, the finally block runs when the task resumes
\* (callers are abandoned only here, while their call is outstanding)
CallCancel(t) ==
    /\ task[t].pc = "awaiting"
    /\ pending_calls[t].state = "pending"
    /\ pending_calls' = Put(pending_calls, t, Future("cancelled", NoVal))
    /\ UNCHANGED <<channel, unary_handlers, handlers, pending_messages, task,
                   htask, enq, received, streams>>

\* CallResume waking the caller for a result only: a failed future leaves it
\* suspended
CallResume_ResultOnly(t) ==
    /\ task[t].pc = "awaiting"
    /\ pending_calls[t].state = "result"
    /\ FinishCall(t)
    /\ UNCHANGED <<channel, unary_handlers, handlers, pending_messages, htask,
                   enq, received, streams>>

\* line 199 resumes: the future the caller waits for is done
CallResume(t) ==
    /\ task[t].pc = "awaiting"
    /\ pending_calls[t].state # "pending"
    /\ FinishCall(t)
    /\ UNCHANGED <<channel, unary_handlers, handlers, pending_messages, htask,
                   enq, received, streams>>

\* ---- add_unary_handler (lines 167-179) ----------------------------------
\* AddBody with the handler stored before the duplicate check
AddBody_StoresFirst(t, p) ==
    /\ pending_messages' = Append(pending_messages, AddUnaryHandlerReq(p))
    /\ enq' = Append(enq, AddUnaryHandlerReq(p))
    /\ unary_handlers' = Put(unary_handlers, p, HandlerOf(t))
    /\ task' = [Ends(t, IF p \in DOMAIN unary_handlers
                        THEN Outcome("duplicate", NoVal) ELSE Outcome("ok", NoVal))
                  EXCEPT ![t].kind = "add_unary_handler", ![t].proto = p]

\* AddBody with a put that suspends (a bounded queue): the frame is on the
\* queue while the task has not reached the check and the store
AddBody_PutSuspends(t, p) ==
    /\ pending_messages' = Append(pending_messages, AddUnaryHandlerReq(p))
    /\ enq' = Append(enq, AddUnaryHandlerReq(p))
    /\ task' = [task EXCEPT ![t].pc = "putting", ![t].kind = "add_unary_handler",
                            ![t].proto = p]
    /\ UNCHANGED unary_handlers

\* lines 170-179: put the registration frame, then check and store
AddBody(t, p) ==
    /\ pending_messages' = Append(pending_messages, AddUnaryHandlerReq(p))
    /\ enq' = Append(enq, AddUnaryHandlerReq(p))
    /\ IF p \in DOMAIN unary_handlers
       THEN /\ task' = [Ends(t, Outcome("duplicate", NoVal))
                          EXCEPT ![t].kind = "add_unary_handler", ![t].proto = p]
            /\ UNCHANGED unary_handlers
       ELSE /\ task' = [Ends(t, Outcome("ok", NoVal))
                          EXCEPT ![t].kind = "add_unary_handler", ![t].proto = p]
            /\ unary_handlers' = Put(unary_handlers, p, HandlerOf(t))

AddStart(t, p) ==
    /\ task[t].pc = "idle"
    /\ \/ /\ EnsureOpen
          /\ AddBody(t, p)
          /\ UNCHANGED channel
       \/ /\ LockRaises
          /\ task' = [Ends(t, Outcome("lock_error", NoVal))
                        EXCEPT ![t].kind = "add_unary_handler", ![t].proto = p]
          /\ UNCHANGED <<channel, pending_messages, enq, unary_handlers>>
       \/ /\ LockEnters
          /\ ensure_conn_lock' = TRUE
          /\ task' = [task EXCEPT ![t].pc = "opening", ![t].kind = "add_unary_handler",
                                  ![t].proto = p]
          /\ UNCHANGED <<pers_conn_open, pending_messages, reader, writer, wire,
                         nOpen, enq, unary_handlers>>
    /\ UNCHANGED <<pending_calls, handlers, htask, received, streams>>

AddOpened(t) ==
    /\ task[t].pc = "opening"
    /\ task[t].kind = "add_unary_handler"
    /\ EstablishChannel
    /\ AddBody(t, task[t].proto)
    /\ UNCHANGED <<pending_calls, handlers, htask, received, streams>>

\* ---- _read_from_persistent_conn (lines 107-125) -------------------------
\* `call_id in self.pending_calls`
IsPending(id) == id \in DOMAIN pending_calls

\* ReadCallUnaryResponse completing whichever call is waiting, not the frame's
ReadCallUnaryResponse_AnyPending(f) ==
    LET waiting == {id \in DOMAIN pending_calls : pending_calls[id].state = "pending"}
    IN  IF waiting # {}
        THEN /\ \E id \in waiting :
                   pending_calls' = Put(pending_calls, id, Future(f.kind, f.val))
             /\ UNCHANGED reader
        ELSE UNCHANGED <<pending_calls, reader>>

\* ReadCallUnaryResponse indexing pending_calls without the membership test:
\* a KeyError leaves the loop
ReadCallUnaryResponse_KeyError(f) ==
    IF IsPending(f.callId) /\ pending_calls[f.callId].state = "pending"
    THEN /\ pending_calls' = Put(pending_calls, f.callId, Future(f.kind, f.val))
         /\ UNCHANGED reader
    ELSE /\ reader' = "dead"
         /\ UNCHANGED pending_calls

\* ReadCallUnaryResponse failing every waiting call on a remote error
ReadCallUnaryResponse_FailsAll(f) ==
    IF IsPending(f.callId) /\ pending_calls[f.callId].state = "pending"
    THEN /\ pending_calls' =
               [id \in DOMAIN pending_calls |->
                  IF id = f.callId \/ (f.kind = "error"
                                        /\ pending_calls[id].state = "pending")
                  THEN Future(f.kind, f.val) ELSE pending_calls[id]]
         /\ UNCHANGED reader
    ELSE IF IsPending(f.callId)
         THEN reader' = "dead" /\ UNCHANGED pending_calls
         ELSE UNCHANGED <<pending_calls, reader>>

\* lines 112-121: one callUnaryResponse frame.  set_result and set_exception
\* raise InvalidStateError on a future that is already done or cancelled; the
\* error leaves the loop.
ReadCallUnaryResponse(f) ==
    IF IsPending(f.callId)
    THEN IF pending_calls[f.callId].state = "pending"
         THEN /\ pending_calls' = Put(pending_calls, f.callId, Future(f.kind, f.val))
              /\ UNCHANGED reader
         ELSE /\ reader' = "dead"
              /\ UNCHANGED pending_calls
    ELSE UNCHANGED <<pending_calls, reader>>

\* lines 123-124: create_task(self._handle_persistent_request(request))
NewRequestTask(f) ==
    [proto |-> f.proto, callId |-> Len(htask) + 1, st |-> "created",
     fn |-> NoHandler, out |-> NoOutcome]

\* ReadNext in a loop that awaits _handle_persistent_request instead of
\* creating a task for it: no frame is read while an invocation is unfinished
ReadNext_AwaitsHandler(f) ==
    /\ reader = "running"
    /\ Len(received) < MaxFrames
    /\ \A i \in DOMAIN htask : htask[i].st \notin {"created", "running"}
    /\ received' = Append(received, f)

\* line 110: read_pbmsg_safe has returned frame f
ReadNext(f) ==
    /\ reader = "running"
    /\ Len(received) < MaxFrames
    /\ received' = Append(received, f)

ReadResponse(f) ==
    /\ ReadNext(f)
    /\ ReadCallUnaryResponse(f)
    /\ UNCHANGED <<pers_conn_open, ensure_conn_lock, unary_handlers, handlers,
                   pending_messages, writer, wire, task, htask, nOpen, enq, streams>>

ReadRequest(f) ==
    /\ ReadNext(f)
    /\ htask' = Append(htask, NewRequestTask(f))
    /\ UNCHANGED <<channel, unary_handlers, handlers, pending_messages,
                   pending_calls, task, enq, streams>>

\* a response with neither field: the loop reads on
ReadOther(f) ==
    /\ ReadNext(f)
    /\ UNCHANGED <<channel, unary_handlers, handlers, pending_messages,
                   pending_calls, task, htask, enq, streams>>

\* line 110: read_pbmsg_safe raises (end of stream, undecodable frame); nothing
\* catches it and the task ends
ReadFails ==
    /\ reader = "running"
    /\ reader' = "dead"
    /\ UNCHANGED <<pers_conn_open, ensure_conn_lock, unary_handlers, handlers,
                   pending_messages, pending_calls, writer, wire, task, htask,
                   nOpen, enq, received, streams>>

\* ---- _handle_persistent_request (lines 132-144) -------------------------
\* line 133 and the lookup of line 137, when the task first runs
HandleStart(i) ==
    /\ i \in DOMAIN htask
    /\ htask[i].st = "created"
    /\ IF htask[i].proto \notin DOMAIN unary_handlers
       THEN htask' = [htask EXCEPT ![i].st = "crashed"]
       ELSE htask' = [htask EXCEPT ![i].st = "running",
                                   ![i].fn = unary_handlers[htask[i].proto]]
    /\ UNCHANGED <<channel, unary_handlers, handlers, pending_messages,
                   pending_calls, task, enq, received, streams>>

\* HandlerResponse reporting the handler's exception in the result field
HandlerResponse_ResultOnly(callId, kind, val) == SendResponseReq(callId, "result", val)

\* lines 138-140: the response built from what the handler did
HandlerResponse(callId, kind, val) == SendResponseReq(callId, kind, val)

\* lines 137-144: the handler returns val (kind "result") or raises an
\* exception whose repr is val (kind "error"); the response is put
HandleFinish(i, kind, val) ==
    /\ i \in DOMAIN htask
    /\ htask[i].st = "running"
    /\ htask' = [htask EXCEPT ![i].st = "done", ![i].out = Outcome(kind, val)]
    /\ pending_messages' = Append(pending_messages,
                                  HandlerResponse(htask[i].callId, kind, val))
    /\ enq' = Append(enq, HandlerResponse(htask[i].callId, kind, val))
    /\ UNCHANGED <<channel, unary_handlers, handlers, pending_calls, task, received,
                   streams>>

\* WriteFrame taking the newest message instead of the oldest
WriteFrame_Lifo ==
    /\ writer = "running"
    /\ pending_messages # <<>>
    /\ wire' = Append(wire, pending_messages[Len(pending_messages)])
    /\ pending_messages' = SubSeq(pending_messages, 1, Len(pending_messages) - 1)
    /\ UNCHANGED <<pers_conn_open, ensure_conn_lock, unary_handlers, handlers,
                   pending_calls, reader, writer, task, htask, nOpen, enq, received, streams>>

\* ---- _write_to_persistent_conn (lines 127-130) --------------------------
WriteFrame ==
    /\ writer = "running"
    /\ pending_messages # <<>>
    /\ wire' = Append(wire, Head(pending_messages))
    /\ pending_messages' = Tail(pending_messages)
    /\ UNCHANGED <<pers_conn_open, ensure_conn_lock, unary_handlers, handlers,
                   pending_calls, reader, writer, task, htask, nOpen, enq, received, streams>>

\* line 130: write_pbmsg raises (the connection is gone) on the message the
\* loop has just taken from the queue; nothing catches it and the task ends
WriteFails ==
    /\ writer = "running"
    /\ pending_messages # <<>>
    /\ writer' = "dead"
    /\ pending_messages' = Tail(pending_messages)
    /\ UNCHANGED <<pers_conn_open, ensure_conn_lock, unary_handlers, handlers,
                   pending_calls, reader, wire, task, htask, nOpen, enq, received, streams>>

\* ---- one-shot commands (lines 203-288) ----------------------------------
\* utils.raise_if_failed: a response whose status is ERROR becomes an error
\* that carries the daemon's message, any other response passes
raise_if_failed(resp) ==
    IF resp.status = "ERROR" THEN Outcome("control_failure", resp.msg)
    ELSE Outcome("ok", NoVal)

\* open_connection has returned an ephemeral connection
OpOpen(t, kind, p) ==
    /\ task[t].pc = "idle"
    /\ task' = [task EXCEPT ![t].pc = "connected", ![t].kind = kind,
                            ![t].proto = p, ![t].conn = "open"]

\* write_pbmsg has written the request frame
OpWrite(t, kind) ==
    /\ task[t].pc = "connected"
    /\ task[t].kind = kind
    /\ task' = [task EXCEPT ![t].pc = "written", ![t].nwritten = @ + 1]

\* OpReadClose with writer.close() after raise_if_failed: reached on success only
OpReadClose_CloseAfterRaise(t, resp) ==
    [task EXCEPT ![t].pc = "done", ![t].resp = resp, ![t].nread = @ + 1,
                 ![t].conn = IF raise_if_failed(resp).kind = "ok"
                             THEN "closed" ELSE "open",
                 ![t].outcome = raise_if_failed(resp)]

\* read_pbmsg_safe has returned the response; writer.close(); raise_if_failed
OpReadClose(t, resp) ==
    [task EXCEPT ![t].pc = "done", ![t].resp = resp, ![t].nread = @ + 1,
                 ![t].conn = "closed", ![t].outcome = raise_if_failed(resp)]

\* connect sending its request through the persistent channel's queue
ConnectFinish_ViaQueue(t, resp) ==
    /\ task' = OpReadClose(t, resp)
    /\ pending_messages' =
           Append(pending_messages, Frame("CONNECT", None, UnknownId, None, NoVal))
    /\ UNCHANGED <<handlers, unary_handlers, pending_calls, pers_conn_open>>

\* lines 229-232 of connect: read the response, close, raise_if_failed
ConnectFinish(t, resp) ==
    /\ task' = OpReadClose(t, resp)
    /\ UNCHANGED <<handlers, unary_handlers, pending_calls, pending_messages,
                   pers_conn_open>>

\* StreamHandlerFinish keeping an entry that is already there, as
\* add_unary_handler does
StreamHandlerFinish_KeepsFirst(t, resp) ==
    /\ task' = OpReadClose(t, resp)
    /\ IF raise_if_failed(resp).kind = "ok" /\ task[t].proto \notin DOMAIN handlers
       THEN handlers' = Put(handlers, task[t].proto, HandlerOf(t))
       ELSE UNCHANGED handlers
    /\ UNCHANGED <<unary_handlers, pending_calls, pending_messages, pers_conn_open>>

\* lines 282-288 of stream_handler: read, close, raise_if_failed, then store
StreamHandlerFinish(t, resp) ==
    /\ task' = OpReadClose(t, resp)
    /\ IF raise_if_failed(resp).kind = "ok"
       THEN handlers' = Put(handlers, task[t].proto, HandlerOf(t))
       ELSE UNCHANGED handlers
    /\ UNCHANGED <<unary_handlers, pending_calls, pending_messages, pers_conn_open>>

ConnectStart(t) ==
    /\ OpOpen(t, "connect", None)
    /\ UNCHANGED <<channel, unary_handlers, handlers, pending_messages,
                   pending_calls, htask, enq, received, streams>>

ConnectWrite(t) ==
    /\ OpWrite(t, "connect")
    /\ UNCHANGED <<channel, unary_handlers, handlers, pending_messages,
                   pending_calls, htask, enq, received, streams>>

ConnectRead(t, resp) ==
    /\ task[t].pc = "written"
    /\ task[t].kind = "connect"
    /\ ConnectFinish(t, resp)
    /\ UNCHANGED <<ensure_conn_lock, reader, writer, wire, nOpen, htask, enq, received, streams>>

StreamHandlerStart(t, p) ==
    /\ OpOpen(t, "stream_handler", p)
    /\ UNCHANGED <<channel, unary_handlers, handlers, pending_messages,
                   pending_calls, htask, enq, received, streams>>

StreamHandlerWrite(t) ==
    /\ OpWrite(t, "stream_handler")
    /\ UNCHANGED <<channel, unary_handlers, handlers, pending_messages,
                   pending_calls, htask, enq, received, streams>>

StreamHandlerRead(t, resp) ==
    /\ task[t].pc = "written"
    /\ task[t].kind = "stream_handler"
    /\ StreamHandlerFinish(t, resp)
    /\ UNCHANGED <<ensure_conn_lock, reader, writer, wire, nOpen, htask, enq, received, streams>>

\* what no one-shot command touches: the persistent channel, its queue and
\* dicts, the request tasks, the inbound streams
engine == <<channel, unary_handlers, pending_messages, pending_calls, htask, enq,
            received, streams>>

\* lines 208-212 of identify, 238-241 of list_peers, 251-254 of disconnect:
\* read the response, close, raise_if_failed
IdentifyFinish(t, resp) == task' = OpReadClose(t, resp)
ListPeersFinish(t, resp) == task' = OpReadClose(t, resp)
DisconnectFinish(t, resp) == task' = OpReadClose(t, resp)

\* lines 265-272 of stream_open: read the response, raise_if_failed, return
\* the reader and the writer; no line closes the connection
StreamOpenFinish(t, resp) ==
    task' = [task EXCEPT ![t].pc = "done", ![t].resp = resp, ![t].nread = @ + 1,
                         ![t].outcome = raise_if_failed(resp)]

IdentifyStart(t) == OpOpen(t, "identify", None) /\ UNCHANGED <<engine, handlers>>
IdentifyWrite(t) == OpWrite(t, "identify") /\ UNCHANGED <<engine, handlers>>
IdentifyRead(t, resp) ==
    /\ task[t].pc = "written"
    /\ task[t].kind = "identify"
    /\ IdentifyFinish(t, resp)
    /\ UNCHANGED <<engine, handlers>>

ListPeersStart(t) == OpOpen(t, "list_peers", None) /\ UNCHANGED <<engine, handlers>>
ListPeersWrite(t) == OpWrite(t, "list_peers") /\ UNCHANGED <<engine, handlers>>
ListPeersRead(t, resp) ==
    /\ task[t].pc = "written"
    /\ task[t].kind = "list_peers"
    /\ ListPeersFinish(t, resp)
    /\ UNCHANGED <<engine, handlers>>

DisconnectStart(t) == OpOpen(t, "disconnect", None) /\ UNCHANGED <<engine, handlers>>
DisconnectWrite(t) == OpWrite(t, "disconnect") /\ UNCHANGED <<engine, handlers>>
DisconnectRead(t, resp) ==
    /\ task[t].pc = "written"
    /\ task[t].kind = "disconnect"
    /\ DisconnectFinish(t, resp)
    /\ UNCHANGED <<engine, handlers>>

StreamOpenStart(t) == OpOpen(t, "stream_open", None) /\ UNCHANGED <<engine, handlers>>
StreamOpenWrite(t) == OpWrite(t, "stream_open") /\ UNCHANGED <<engine, handlers>>
StreamOpenRead(t, resp) ==
    /\ task[t].pc = "written"
    /\ task[t].kind = "stream_open"
    /\ StreamOpenFinish(t, resp)
    /\ UNCHANGED <<engine, handlers>>

\* read_pbmsg_safe raises in a one-shot command (the daemon went away before
\* it answered): the error leaves the command at once, before any close
OpReadFails(t) ==
    /\ task[t].pc = "written"
    /\ task' = [task EXCEPT ![t].pc = "done",
                            ![t].outcome = Outcome("read_error", NoVal)]
    /\ UNCHANGED <<engine, handlers>>

\* ---- _handler, the stream acceptor (lines 146-156) ----------------------
\* Dispatch leaving the connection open when no handler is registered
Dispatch_LeavesOpen(p) ==
    IF p \in DOMAIN handlers
    THEN [proto |-> p, conn |-> "open", st |-> "handling", fn |-> handlers[p]]
    ELSE [proto |-> p, conn |-> "open", st |-> "DispatchFailure", fn |-> NoHandler]

\* lines 150-156: look the protocol up; call the handler with the open
\* connection, or close the connection and raise DispatchFailure
Dispatch(p) ==
    IF p \in DOMAIN handlers
    THEN [proto |-> p, conn |-> "open", st |-> "handling", fn |-> handlers[p]]
    ELSE [proto |-> p, conn |-> "closed", st |-> "DispatchFailure", fn |-> NoHandler]

\* the server started by listen (lines 96-105) runs _handler in a task of its
\* own for every inbound connection; here the task has read the stream header
\* (line 148), which names protocol p
Handler(p) ==
    /\ Len(streams) < MaxStreams
    /\ streams' = Append(streams, Dispatch(p))
    /\ UNCHANGED <<channel, unary_handlers, handlers, pending_messages,
                   pending_calls, task, htask, enq, received>>

\* ---- the system ---------------------------------------------------------
Next ==
    \/ \E t \in Tasks : CallStart(t)
    \/ \E t \in Tasks : CallOpened(t)
    \/ \E t \in Tasks : CallCancel(t)
    \/ \E t \in Tasks : CallResume(t)
    \/ \E t \in Tasks, p \in Protos : AddStart(t, p)
    \/ \E t \in Tasks : AddOpened(t)
    \/ \E f \in CallUnaryResponses : ReadResponse(f)
    \/ \E f \in RequestHandlings : ReadRequest(f)
    \/ \E f \in OtherResponses : ReadOther(f)
    \/ ReadFails
    \/ \E i \in 1 .. MaxFrames : HandleStart(i)
    \/ \E i \in 1 .. MaxFrames, k \in {"result", "error"}, v \in Payloads :
          HandleFinish(i, k, v)
    \/ WriteFrame
    \/ WriteFails
    \/ \E t \in Tasks : ConnectStart(t)
    \/ \E t \in Tasks : ConnectWrite(t)
    \/ \E t \in Tasks, r \in Responses : ConnectRead(t, r)
    \/ \E t \in Tasks, p \in Protos : StreamHandlerStart(t, p)
    \/ \E t \in Tasks : StreamHandlerWrite(t)
    \/ \E t \in Tasks, r \in Responses : StreamHandlerRead(t, r)
    \/ \E t \in Tasks : OpReadFails(t)

Spec == Init /\ [][Next]_vars

\* The one-shot commands and the stream acceptor.  They read and write the
\* tasks' ephemeral connections, handlers and the inbound streams, and nothing
\* of the persistent channel (engine); the channel's steps in Next read and
\* write none of handlers, streams or an ephemeral connection.  The two sides
\* meet in no variable but the pool of tasks, so the commands and the acceptor
\* are explored on their own, from the same initial state.
CommandNext ==
    \/ \E t \in Tasks : IdentifyStart(t)
    \/ \E t \in Tasks : IdentifyWrite(t)
    \/ \E t \in Tasks, r \in Responses : IdentifyRead(t, r)
    \/ \E t \in Tasks : ConnectStart(t)
    \/ \E t \in Tasks : ConnectWrite(t)
    \/ \E t \in Tasks, r \in Responses : ConnectRead(t, r)
    \/ \E t \in Tasks : ListPeersStart(t)
    \/ \E t \in Tasks : ListPeersWrite(t)
    \/ \E t \in Tasks, r \in Responses : ListPeersRead(t, r)
    \/ \E t \in Tasks : DisconnectStart(t)
    \/ \E t \in Tasks : DisconnectWrite(t)
    \/ \E t \in Tasks, r \in Responses : DisconnectRead(t, r)
    \/ \E t \in Tasks : StreamOpenStart(t)
    \/ \E t \in Tasks : StreamOpenWrite(t)
    \/ \E t \in Tasks, r \in Responses : StreamOpenRead(t, r)
    \/ \E t \in Tasks, p \in Protos : StreamHandlerStart(t, p)
    \/ \E t \in Tasks : StreamHandlerWrite(t)
    \/ \E t \in Tasks, r \in Responses : StreamHandlerRead(t, r)
    \/ \E t \in Tasks : OpReadFails(t)
    \/ \E p \in Protos : Handler(p)

CommandSpec == Init /\ [][CommandNext]_vars

\* The event loop runs every task that is ready: a caller whose future is done,
\* a task whose connection is open, the write loop when the queue holds a
\* message, a request task that was created.  What the daemon, the handlers and
\* the callers' owners do (frames, responses, results, cancellations) is not
\* forced.
Fairness ==
    /\ \A t \in Tasks : WF_vars(CallResume(t))
    /\ \A t \in Tasks : WF_vars(CallOpened(t))
    /\ \A t \in Tasks : WF_vars(AddOpened(t))
    /\ \A i \in 1 .. MaxFrames : WF_vars(HandleStart(i))
    /\ WF_vars(WriteFrame)

FairSpec == Spec /\ Fairness

\* ---- properties ---------------------------------------------------------
IsCall(t) == task[t].kind = "call_unary_handler"
IsAdd(t) == task[t].kind = "add_unary_handler"
ResponseFor(id, kind) ==
    Frame("callUnaryResponse", None, id, kind,
          IF kind = "result" THEN ResultFor(id) ELSE ErrorFor(id))

\* C1: whatever the order of the response frames, an invocation that returns
\* a result returns the payload of the result frame with its own CallID, and
\* one that raises a remote error raises the message of the error frame with
\* its own CallID; the same holds of the future it waits on.
C1_OwnResponseOnly ==
    /\ \A t \in Tasks :
          /\ task[t].outcome.kind = "result" => task[t].outcome.val = ResultFor(t)
          /\ task[t].outcome.kind = "remote_error" => task[t].outcome.val = ErrorFor(t)
    /\ \A id \in DOMAIN pending_calls :
          /\ pending_calls[id].state = "result" => pending_calls[id].val = ResultFor(id)
          /\ pending_calls[id].state = "error" => pending_calls[id].val = ErrorFor(id)

\* two calls outstanding at once, answered second first: call 2 has returned
\* its result while call 1 holds its error
C1_Witness ==
    /\ NumTasks >= 2
    /\ received = <<ResponseFor(2, "result"), ResponseFor(1, "error")>>
    /\ task[2].outcome = Outcome("result", ResultFor(2))
    /\ task[1].pc = "awaiting"
    /\ pending_calls[1].state = "error"

\* C2 (as claimed): open_persistent_connection runs at most once, and a call to
\* _ensure_persistent_conn never ends with the channel not open.
C2_EstablishedOnceForAll ==
    /\ nOpen <= 1
    /\ \A t \in Tasks :
          (IsCall(t) \/ IsAdd(t)) /\ task[t].pc \in {"awaiting", "done"}
             => pers_conn_open

\* C3 (as claimed): once the read loop has ended, every call that was waiting
\* at that moment eventually fails with a channel-closed error.
C3_PendingFailOnClose ==
    \A t \in Tasks :
       [](reader = "dead" /\ t \in DOMAIN pending_calls
             /\ pending_calls[t].state = "pending"
          => <>(task[t].outcome.kind = "channel_closed"))

\* C4: a request task has put exactly one SEND_RESPONSE_TO_REMOTE frame with
\* its callId once its handler returned or raised, carrying the return value
\* as result or the error description as error, and none before.
ResponsesTo(id) ==
    {k \in DOMAIN enq : enq[k].type = "SEND_RESPONSE_TO_REMOTE" /\ enq[k].callId = id}

C4_ExactlyOneResponse ==
    \A i \in DOMAIN htask :
       IF htask[i].st = "done"
       THEN /\ Cardinality(ResponsesTo(htask[i].callId)) = 1
            /\ \A k \in ResponsesTo(htask[i].callId) :
                  /\ enq[k].kind = htask[i].out.kind
                  /\ enq[k].val = htask[i].out.val
       ELSE ResponsesTo(htask[i].callId) = {}

\* two requests answered, one handler returned and one raised
C4_Witness ==
    \E i, j \in DOMAIN htask :
       /\ htask[i].st = "done" /\ htask[i].out.kind = "result"
       /\ htask[j].st = "done" /\ htask[j].out.kind = "error"

\* C5: a registration for a protocol that already has a handler ends with the
\* duplicate-handler error and leaves unary_handlers as it was; no step
\* changes an entry of unary_handlers, and a request task runs the handler
\* that unary_handlers holds for its protocol.
C5_DuplicateKeepsFirst ==
    [][ /\ \A t \in Tasks :
              task[t].pc = "idle" /\ IsAdd(t)' /\ task'[t].proto \in DOMAIN unary_handlers
                 => /\ task'[t].outcome.kind = "duplicate"
                    /\ unary_handlers' = unary_handlers
        /\ \A p \in DOMAIN unary_handlers :
              p \in DOMAIN unary_handlers' /\ unary_handlers'[p] = unary_handlers[p]
        /\ \A i \in DOMAIN htask' :
              htask'[i].st \in {"running", "done"}
                 => htask'[i].fn = unary_handlers'[htask'[i].proto]
      ]_vars

\* task 2's registration was rejected and a request for the protocol was
\* served by task 1's handler
C5_Witness ==
    \E i \in DOMAIN htask :
       /\ NumTasks >= 2
       /\ IsAdd(2) /\ task[2].outcome.kind = "duplicate"
       /\ htask[i].proto = task[2].proto
       /\ htask[i].st = "done"
       /\ htask[i].fn = HandlerOf(1)

\* C6: pending_calls holds only CallIDs of invocations that are suspended on
\* their future; an invocation that has ended has no entry.
C6_OnlyCallsInProgress ==
    \A id \in DOMAIN pending_calls : IsCall(id) /\ task[id].pc = "awaiting"

\* one call ended by cancellation, one by a remote error, both removed
C6_Witness ==
    \E t, u \in Tasks :
       /\ task[t].outcome.kind = "cancelled"
       /\ task[u].outcome.kind = "remote_error"
       /\ pending_calls = EmptyDict

\* C7: the frames the write loop has written (those after the upgrade frame)
\* are a prefix of the frames put on pending_messages, in the order they were
\* put, and while the loop runs the frames still queued are the rest of them.
WrittenByLoop == IF wire = <<>> THEN <<>> ELSE Tail(wire)

C7_WrittenInEnqueueOrder ==
    /\ Len(WrittenByLoop) <= Len(enq)
    /\ WrittenByLoop = SubSeq(enq, 1, Len(WrittenByLoop))
    /\ writer # "dead" => WrittenByLoop \o pending_messages = enq

\* frames of the three producers have been written
C7_Witness ==
    /\ \E k \in DOMAIN wire : wire[k].type = "CALL_UNARY"
    /\ \E k \in DOMAIN wire : wire[k].type = "ADD_UNARY_HANDLER"
    /\ \E k \in DOMAIN wire : wire[k].type = "SEND_RESPONSE_TO_REMOTE"

\* C8: reading a callUnaryResponse whose CallID is not a key of pending_calls
\* changes no pending call and leaves the read loop running.
C8_UnknownCallDiscarded ==
    [][ Len(received') = Len(received) + 1
        /\ received'[Len(received')].type = "callUnaryResponse"
        /\ received'[Len(received')].callId \notin DOMAIN pending_calls
           => pending_calls' = pending_calls /\ reader' = "running"
      ]_vars

\* a response for an abandoned call was discarded and the frame after it
\* completed another call
C8_Witness ==
    \E t, u \in Tasks :
       /\ t # u
       /\ task[t].outcome.kind = "cancelled"
       /\ received = <<ResponseFor(t, "result"), ResponseFor(u, "result")>>
       /\ reader = "running"
       /\ task[u].outcome = Outcome("result", ResultFor(u))

\* C9: the step in which the read loop fails a pending call with a remote
\* error changes no other entry of pending_calls and leaves the loop running.
C9_RemoteErrorIsLocal ==
    [][ \A a \in DOMAIN pending_calls :
           pending_calls[a].state = "pending" /\ a \in DOMAIN pending_calls'
           /\ pending_calls'[a].state = "error"
              => /\ reader' = reader
                 /\ \A b \in DOMAIN pending_calls \ {a} :
                       b \in DOMAIN pending_calls' /\ pending_calls'[b] = pending_calls[b]
      ]_vars

\* call a failed with a remote error, then call b returned its own result
C9_Witness ==
    \E a, b \in Tasks :
       /\ a # b
       /\ received = <<ResponseFor(a, "error"), ResponseFor(b, "result")>>
       /\ task[a].outcome = Outcome("remote_error", ErrorFor(a))
       /\ task[b].outcome = Outcome("result", ResultFor(b))

\* C10: no step of connect changes handlers, unary_handlers, pending_calls,
\* pending_messages or _pers_conn_open, and a connect that reads a response
\* with status ERROR ends with an error that carries the response's message.
C10_FailedConnectNoEffect ==
    [][ \A t \in Tasks :
           task'[t] # task[t] /\ task'[t].kind = "connect"
              => /\ UNCHANGED <<handlers, unary_handlers, pending_calls,
                                pending_messages, pers_conn_open>>
                 /\ task'[t].pc = "done" /\ task'[t].resp.status = "ERROR"
                       => task'[t].outcome =
                             Outcome("control_failure", task'[t].resp.msg)
      ]_vars

\* a connect has failed while the channel was open and a call was waiting
C10_Witness ==
    \E t \in Tasks :
       /\ task[t].kind = "connect"
       /\ task[t].outcome.kind = "control_failure"
       /\ pers_conn_open
       /\ pending_calls # EmptyDict
       /\ pending_messages # <<>>

\* C11: when _handler reads a stream header whose protocol has no entry in
\* handlers, that connection is closed, the task ends with DispatchFailure and
\* no handler is called; the streams served before stay as they were, and a
\* connection that arrives after a failed one is still served: it goes to the
\* handler registered for its protocol, with its connection open.
C11_UnregisteredStreamClosed ==
    [][ /\ Len(streams') = Len(streams) + 1
           => LET s == streams'[Len(streams')]
              IN  /\ SubSeq(streams', 1, Len(streams)) = streams
                  /\ s.proto \notin DOMAIN handlers
                        => s.conn = "closed" /\ s.st = "DispatchFailure"
                           /\ s.fn = NoHandler
                  /\ s.proto \in DOMAIN handlers
                        => s.conn = "open" /\ s.st = "handling"
                           /\ s.fn = handlers[s.proto]
        /\ Len(streams) < MaxStreams => ENABLED (\E p \in Protos : Handler(p))
      ]_vars

\* a stream for a protocol without a handler was refused, the handler was
\* registered, and the next stream for that protocol reached it
C11_Witness ==
    /\ Len(streams) = 2
    /\ streams[1].st = "DispatchFailure" /\ streams[1].conn = "closed"
    /\ streams[2].proto = streams[1].proto
    /\ streams[2].st = "handling" /\ streams[2].fn = HandlerOf(1)

\* C12: a task running identify, connect, list_peers, disconnect or
\* stream_handler has written at most one request frame and read at most one
\* response frame on its connection; once it has ended on the daemon's
\* response, success or failure, it has written one frame, read one frame and
\* closed the connection.  stream_open makes the same exchange, and after a
\* success its connection is open.
ClosingCommands == {"identify", "connect", "list_peers", "disconnect", "stream_handler"}

C12_OneExchangeThenClosed ==
    \A t \in Tasks :
       task[t].kind \in ClosingCommands \cup {"stream_open"}
          => /\ task[t].nwritten <= 1 /\ task[t].nread <= 1
             /\ task[t].pc \in {"written", "done"} => task[t].nwritten = 1
             /\ task[t].outcome.kind \in {"ok", "control_failure"}
                   => /\ task[t].pc = "done"
                      /\ task[t].nwritten = 1 /\ task[t].nread = 1
                      /\ task[t].kind \in ClosingCommands => task[t].conn = "closed"
                      /\ task[t].kind = "stream_open" /\ task[t].outcome.kind = "ok"
                            => task[t].conn = "open"

\* a command the daemon refused has closed its connection, and a stream_open
\* the daemon accepted has returned its connection open
C12_Witness ==
    \E t, u \in Tasks :
       /\ task[t].kind \in ClosingCommands
       /\ task[t].outcome.kind = "control_failure" /\ task[t].conn = "closed"
       /\ task[u].kind = "stream_open"
       /\ task[u].outcome.kind = "ok" /\ task[u].conn = "open"

\* C13 (as claimed): whenever the read loop reads a callUnaryResponse whose
\* CallID is a key of pending_calls, the future stored there is still pending,
\* so that no set_result or set_exception meets a future that is already done
\* or cancelled.
C13_CompletedAtMostOnce ==
    [][ Len(received') = Len(received) + 1
        /\ received'[Len(received')].type = "callUnaryResponse"
        /\ received'[Len(received')].callId \in DOMAIN pending_calls
           => pending_calls[received'[Len(received')].callId].state = "pending"
      ]_vars

\* C14: while a handler invocation is unfinished and the read loop runs, the
\* loop can read every frame the daemon may send next; a callUnaryResponse it
\* reads then completes the pending call it names, and a requestHandling it
\* reads then starts a new invocation beside the unfinished ones.
Unfinished == {i \in DOMAIN htask : htask[i].st \in {"created", "running"}}

C14_ReadLoopNotBlocked ==
    [][ Unfinished # {} /\ reader = "running" /\ Len(received) < MaxFrames
        => /\ \A f \in CallUnaryResponses : ENABLED ReadResponse(f)
           /\ \A f \in RequestHandlings : ENABLED ReadRequest(f)
           /\ Len(received') = Len(received) + 1
                 => LET f == received'[Len(received')]
                    IN  /\ f.type = "callUnaryResponse"
                           /\ f.callId \in DOMAIN pending_calls
                           /\ pending_calls[f.callId].state = "pending"
                              => pending_calls'[f.callId] = Future(f.kind, f.val)
                        /\ f.type = "requestHandling"
                              => /\ Len(htask') = Len(htask) + 1
                                 /\ htask'[Len(htask')].st = "created"
                                 /\ htask'[Len(htask')].proto = f.proto
                                 /\ SubSeq(htask', 1, Len(htask)) = htask
      ]_vars

\* the first request's handler is still running when the response read after
\* it has completed a call, which has returned
C14_Witness ==
    \E t \in Tasks :
       /\ Len(received) = 2
       /\ received[1].type = "requestHandling"
       /\ htask[1].st = "running"
       /\ received[2] = ResponseFor(t, "result")
       /\ task[t].outcome = Outcome("result", ResultFor(t))

\* C15: under fair scheduling, a caller that is suspended on a future the read
\* loop has resolved or failed eventually ends, returning the result of the
\* response frame with its CallID or raising that frame's remote error.
C15_ResolvedCallReturns ==
    \A t \in Tasks :
       (task[t].pc = "awaiting" /\ pending_calls[t].state \in {"result", "error"})
          ~> (task[t].pc = "done"
              /\ task[t].outcome \in {Outcome("result", ResultFor(t)),
                                      Outcome("remote_error", ErrorFor(t))})

\* a caller has raised the remote error the daemon delivered for its CallID,
\* although the read loop ended right after delivering it
C15_Witness ==
    \E t \in Tasks :
       /\ task[t].outcome = Outcome("remote_error", ErrorFor(t))
       /\ received = <<ResponseFor(t, "error")>>
       /\ Len(wire) >= 2 /\ wire[2] = CallUnaryReq(t)
       /\ reader = "dead"

\* C16: the step in which stream_handler(proto, cb) ends on the daemon's
\* response sets handlers[proto] to cb, whatever was stored there, and changes
\* no other entry if the response reports success; if it reports failure the
\* call raises and handlers is unchanged.  No other step changes handlers.
C16_StoredIffSuccess ==
    [][ /\ \A t \in Tasks :
              task[t].pc = "written" /\ task[t].kind = "stream_handler"
              /\ task'[t].pc = "done" /\ task'[t].nread = 1
                 => IF task'[t].resp.status = "OK"
                    THEN /\ task'[t].outcome.kind = "ok"
                         /\ handlers' = Put(handlers, task[t].proto, HandlerOf(t))
                    ELSE /\ task'[t].outcome.kind = "control_failure"
                         /\ handlers' = handlers
        /\ handlers' # handlers
              => \E t \in Tasks :
                    /\ task[t].kind = "stream_handler" /\ task[t].pc = "written"
                    /\ task'[t].outcome.kind = "ok"
      ]_vars

\* task 2 replaced the callback task 1 had registered for the protocol: the
\* first stream went to task 1's callback, the second to task 2's
C16_Witness ==
    /\ NumTasks >= 2
    /\ Len(streams) = 2
    /\ streams[1].proto = streams[2].proto
    /\ streams[1].fn = HandlerOf(1)
    /\ streams[2].fn = HandlerOf(2)
    /\ handlers[streams[1].proto] = HandlerOf(2)

\* C17: the first frame on the persistent connection is the
\* PERSISTENT_CONN_UPGRADE frame and no other frame on it is one; the write
\* loop exists, and the channel counts as open, only once that frame is there.
Upgrades == {k \in DOMAIN wire : wire[k].type = "PERSISTENT_CONN_UPGRADE"}

C17_UpgradeFirstAndOnce ==
    /\ wire # <<>> => wire[1] = UpgradeReq
    /\ Upgrades \subseteq {1}
    /\ writer # "none" \/ pers_conn_open => Upgrades = {1}

\* both tasks have used the channel, the second without opening it again: the
\* wire holds the upgrade frame and then their two requests
C17_Witness ==
    /\ NumTasks >= 2
    /\ Len(wire) = 3
    /\ wire[1] = UpgradeReq
    /\ {wire[2], wire[3]} = {CallUnaryReq(1), CallUnaryReq(2)}

\* C18: whenever an ADD_UNARY_HANDLER frame for a protocol is on the wire, the
\* protocol has a handler in unary_handlers; so the assertion of line 133 can
\* fail only for a request whose protocol the daemon was never sent a
\* registration frame for.
AddWritten(p) == \E k \in DOMAIN wire : wire[k] = AddUnaryHandlerReq(p)

C18_AssertionHolds ==
    [][ /\ \A p \in Protos : AddWritten(p)' => p \in DOMAIN unary_handlers'
        /\ \A i \in DOMAIN htask :
              htask[i].st = "created" /\ htask'[i].st = "crashed"
                 => ~AddWritten(htask[i].proto)
      ]_vars

\* the registration frame was written, the daemon then relayed a request for
\* the protocol, and the request task found the handler and answered
C18_Witness ==
    \E i \in DOMAIN htask :
       /\ AddWritten(htask[i].proto)
       /\ htask[i].st = "done"
       /\ htask[i].fn = unary_handlers[htask[i].proto]
       /\ \E k \in DOMAIN wire : wire[k].type = "SEND_RESPONSE_TO_REMOTE"

\* C19 (as claimed): the step in which an add_unary_handler call ends with the
\* duplicate-handler error puts nothing on pending_messages.
C19_RejectedPutsNoFrame ==
    [][ \A t \in Tasks :
           task[t].pc # "done" /\ task'[t].outcome.kind = "duplicate"
              => pending_messages' = pending_messages /\ enq' = enq
      ]_vars

\* C20: the step that puts a CALL_UNARY request on pending_messages happens
\* with the channel established and leaves a pending future under the
\* request's CallID in pending_calls; every CALL_UNARY request on the queue or
\* on the wire belongs to a CallID that is in pending_calls or whose call has
\* already ended.
C20_RegisteredBeforeRequest ==
    [][ /\ Len(enq') = Len(enq) + 1 /\ enq'[Len(enq')].type = "CALL_UNARY"
           => LET id == enq'[Len(enq')].callId
              IN  /\ pers_conn_open' /\ reader' # "none" /\ writer' # "none"
                  /\ wire' # <<>>
                  /\ id \in DOMAIN pending_calls'
                  /\ pending_calls'[id] = NewFuture
        /\ \A k \in DOMAIN enq' :
              enq'[k].type = "CALL_UNARY"
                 => \/ enq'[k].callId \in DOMAIN pending_calls'
                    \/ task'[enq'[k].callId].pc = "done"
      ]_vars

\* the second call found the channel open; both requests are on the wire and
\* both futures are registered and pending when the first response arrives
C20_Witness ==
    /\ NumTasks >= 2
    /\ enq = <<CallUnaryReq(1), CallUnaryReq(2)>>
    /\ Len(wire) = 3
    /\ received = <<ResponseFor(2, "result")>>
    /\ pending_calls[1] = NewFuture
    /\ pending_calls[2] = Future("result", ResultFor(2))

====
